---------------------------- MODULE Spec2Model ----------------------------
(***************************************************************************)
(* A model of latex_server.py: the four analysis tools read_text,          *)
(* check_term_consistency, check_formulas and analyze_citations, and the   *)
(* module-level dictionary term_cache they share.                          *)
(*                                                                         *)
(* A text is a sequence of lexemes.  A lexeme is either one character or   *)
(* one of the command literals the regular expressions of the source name  *)
(* (such as \section{ ); the text it stands for is the concatenation of    *)
(* its lexemes.  Each tool is run on texts over an alphabet of its own, in *)
(* which no command literal is a substring of another and none contains a  *)
(* character the tool's patterns or checks look for on its own ("}" for    *)
(* the braced patterns, "$", parentheses and "_^&%" for the formulas, ","  *)
(* and whitespace for the citations), so matching the regular expressions  *)
(* on characters and matching them on lexemes give the same spans.         *)
(***************************************************************************)
EXTENDS Naturals, Integers, Sequences, FiniteSets

(***************************************************************************)
(* Bounds of the model.                                                    *)
(***************************************************************************)
MaxTermLen == 6

MaxFormulaLen == 5

MaxCiteLen == 6

MaxSectionLen == 6

MaxPlainLen == 3

MaxFragments == 2

MaxConcFragments == 2

(***************************************************************************)
(* Lexemes: the command literals of the regular expressions.               *)
(***************************************************************************)
SECTION == "\\section{"

SUBSECTION == "\\subsection{"

TEXTIT == "\\textit{"

TEXTBF == "\\textbf{"

TERM == "\\term{"

CITE == "\\cite{"

BIBITEM == "\\bibitem{"

BEGIN_EQUATION == "\\begin{equation}"

END_EQUATION == "\\end{equation}"

BEGIN_ALIGN == "\\begin{align}"

END_ALIGN == "\\end{align}"

BACKSLASH == "\\"

CommandLexemes ==
    {SECTION, SUBSECTION, TEXTIT, TEXTBF, TERM, CITE, BIBITEM,
     BEGIN_EQUATION, END_EQUATION, BEGIN_ALIGN, END_ALIGN}

\* All texts of at most n lexemes over the alphabet A.
Texts(A, n) == UNION {[1..k -> A] : k \in 0..n}

(***************************************************************************)
(* Helpers on sequences.                                                   *)
(***************************************************************************)
\* The positions i..Len(text) that hold lexeme c.
PositionsFrom(text, c, i) == {j \in i..Len(text) : text[j] = c}

\* The least element of a non-empty set of numbers.
Min(S) == CHOOSE x \in S : \A y \in S : x <= y

\* text.count(c)
Count(text, c) == Cardinality({j \in 1..Len(text) : text[j] = c})

\* The elements of a list, as a set.
Range(seq) == {seq[i] : i \in 1..Len(seq)}

\* [f(x) for x in seq] where seq holds capture spans: the captured strings.
Captured(text, spans) == [i \in 1..Len(spans) |-> SubSeq(text, spans[i].s, spans[i].e)]

(***************************************************************************)
(* re.findall of an opener, a group of non-"}" characters and a "}": the  *)
(* spans of the capture group.                                             *)
(* At i the pattern matches iff text[i] is the opener and a "}" follows;   *)
(* the group cannot cross a "}", so it ends before the first one.  The     *)
(* scan resumes after the match: matches do not overlap.                   *)
(***************************************************************************)
RECURSIVE FindBracedFrom(_, _, _)
FindBracedFrom(text, opener, i) ==
    IF i > Len(text) THEN <<>>
    ELSE IF text[i] = opener /\ PositionsFrom(text, "}", i + 1) # {}
         THEN LET j == Min(PositionsFrom(text, "}", i + 1))
              IN  <<[s |-> i + 1, e |-> j - 1]>> \o FindBracedFrom(text, opener, j + 1)
         ELSE FindBracedFrom(text, opener, i + 1)

\* A variant in which the closing "}" is optional: an opener that nothing
\* closes captures the rest of the text.
RECURSIVE FindBracedOptionalFrom(_, _, _)
FindBracedOptionalFrom(text, opener, i) ==
    IF i > Len(text) THEN <<>>
    ELSE IF text[i] = opener
         THEN LET close == PositionsFrom(text, "}", i + 1)
                  j == IF close = {} THEN Len(text) + 1 ELSE Min(close)
              IN  <<[s |-> i + 1, e |-> j - 1]>>
                  \o FindBracedOptionalFrom(text, opener, j + 1)
         ELSE FindBracedOptionalFrom(text, opener, i + 1)

FindBracedOptional(text, opener) == FindBracedOptionalFrom(text, opener, 1)

FindBraced(text, opener) == FindBracedFrom(text, opener, 1)

(***************************************************************************)
(* check_term_consistency                                                  *)
(***************************************************************************)
term_patterns == <<TEXTIT, TEXTBF, TERM, CITE>>

\* str.lower(), lexeme by lexeme: the uppercase letters of the alphabets
\* are F and X; every other lexeme is its own lowercase.
LowerLexeme(c) == IF c = "F" THEN "f" ELSE IF c = "X" THEN "x" ELSE c

Lower(term) == [i \in 1..Len(term) |-> LowerLexeme(term[i])]

\* The empty dict.
EmptyDict == [k \in {} |-> <<>>]

\* d[key] = value
DictSet(d, key, value) ==
    [k \in DOMAIN d \cup {key} |-> IF k = key THEN value ELSE d[k]]

\* d.values()
Values(d) == {d[k] : k \in DOMAIN d}

\* The terms in the order the two nested loops visit them: pattern by
\* pattern, and within a pattern in the order of the matches.
RECURSIVE ExtractedTermsFrom(_, _)
ExtractedTermsFrom(text, p) ==
    IF p > Len(term_patterns) THEN <<>>
    ELSE Captured(text, FindBraced(text, term_patterns[p]))
         \o ExtractedTermsFrom(text, p + 1)

ExtractedTerms(text) == ExtractedTermsFrom(text, 1)

Inconsistency(original, variant) ==
    [original |-> original, variant |-> variant,
     suggestion |-> <<"Consider using '", original, "' consistently">>]

\* One iteration of the inner loop on `term`, from the locals in `st`.
TermStep(st, term) ==
    LET term_lower == Lower(term) IN
    IF term_lower \in DOMAIN st.found_terms
    THEN IF st.found_terms[term_lower] # term /\ term \notin Values(st.found_terms)
         THEN [st EXCEPT !.inconsistencies =
                  Append(@, Inconsistency(st.found_terms[term_lower], term))]
         ELSE st
    ELSE [st EXCEPT !.found_terms = DictSet(@, term_lower, term)]

RECURSIVE ScanTerms(_, _, _)
ScanTerms(terms, i, st) ==
    IF i > Len(terms) THEN st
    ELSE ScanTerms(terms, i + 1, TermStep(st, terms[i]))

\* The locals found_terms and inconsistencies when the loops end.
TermLoop(text) ==
    ScanTerms(ExtractedTerms(text), 1,
              [found_terms |-> EmptyDict, inconsistencies |-> <<>>])

\* The value check_term_consistency returns.
TermResult(text) ==
    LET st == TermLoop(text)
    IN  [terms |-> st.found_terms, inconsistencies |-> st.inconsistencies]

\* A variant that merges: the entries already in the cache are kept and only
\* new keys are added.
UpdatedCacheMerged(cache, found_terms, update_cache) ==
    IF update_cache
    THEN [k \in DOMAIN cache \cup DOMAIN found_terms |->
             IF k \in DOMAIN cache THEN cache[k] ELSE found_terms[k]]
    ELSE cache

\* A variant that ignores update_cache and always stores.
UpdatedCacheAlways(cache, found_terms, update_cache) == found_terms

\* The value of the global term_cache when the call returns.
UpdatedCache(cache, found_terms, update_cache) ==
    IF update_cache THEN found_terms ELSE cache

(***************************************************************************)
(* read_text                                                               *)
(***************************************************************************)
\* Where the lookahead at the end of the two section patterns succeeds at
\* or after position i: before one of the openers in `stops`, or at "$",
\* which Python (without re.MULTILINE) matches at the end of the string and
\* also just before a newline that ends the string.
LookaheadStops(text, stops, i) ==
    {p \in i..Len(text) : text[p] \in stops}
    \cup {Len(text) + 1}
    \cup {p \in i..Len(text) : p = Len(text) /\ text[p] = "\n"}

\* re.findall of an opener, a title of non-"}" characters, a "}" and a lazy
\* body up to the lookahead, with re.DOTALL: the spans of the two groups.
\* The lazy body takes the fewest characters, so it ends at the first
\* position where the lookahead succeeds; the scan resumes there.
RECURSIVE FindHeadedFrom(_, _, _, _)
FindHeadedFrom(text, opener, stops, i) ==
    IF i > Len(text) THEN <<>>
    ELSE IF text[i] = opener /\ PositionsFrom(text, "}", i + 1) # {}
         THEN LET j == Min(PositionsFrom(text, "}", i + 1))
                  p == Min(LookaheadStops(text, stops, j + 1))
              IN  <<[title |-> [s |-> i + 1, e |-> j - 1],
                     content |-> [s |-> j + 1, e |-> p - 1]]>>
                  \o FindHeadedFrom(text, opener, stops, p)
         ELSE FindHeadedFrom(text, opener, stops, i + 1)

\* re.findall(section_pattern, text, re.DOTALL), as (title, content) pairs.
FindSections(text) ==
    LET ms == FindHeadedFrom(text, SECTION, {SECTION}, 1)
    IN  [k \in 1..Len(ms) |->
            [title |-> SubSeq(text, ms[k].title.s, ms[k].title.e),
             content |-> SubSeq(text, ms[k].content.s, ms[k].content.e)]]

\* re.findall(subsection_pattern, content, re.DOTALL), as the dicts built
\* from the (sub_title, sub_content) pairs.
FindSubsections(content) ==
    LET ms == FindHeadedFrom(content, SUBSECTION, {SUBSECTION, SECTION}, 1)
    IN  [k \in 1..Len(ms) |->
            [title |-> SubSeq(content, ms[k].title.s, ms[k].title.e),
             content |-> SubSeq(content, ms[k].content.s, ms[k].content.e)]]

\* The value read_text returns.
ReadTextResult(text) ==
    LET sections == FindSections(text)
    IN  [sections |-> [k \in 1..Len(sections) |->
                          [title |-> sections[k].title,
                           content |-> sections[k].content,
                           subsections |-> FindSubsections(sections[k].content)]],
         content |-> text]

(***************************************************************************)
(* check_formulas                                                          *)
(***************************************************************************)
\* re.findall of "$", a group of one or more non-"$" characters and "$".
RECURSIVE FindInlineFrom(_, _)
FindInlineFrom(text, i) ==
    IF i > Len(text) THEN <<>>
    ELSE IF /\ text[i] = "$"
            /\ i + 1 <= Len(text)
            /\ text[i + 1] # "$"
            /\ PositionsFrom(text, "$", i + 2) # {}
         THEN LET j == Min(PositionsFrom(text, "$", i + 2))
              IN  <<[s |-> i + 1, e |-> j - 1]>> \o FindInlineFrom(text, j + 1)
         ELSE FindInlineFrom(text, i + 1)

\* re.findall of "$$", a group of one or more non-"$" characters and "$$".
\* The group stops at the first "$"; a second "$" must follow at once.
RECURSIVE FindDisplayFrom(_, _)
FindDisplayFrom(text, i) ==
    IF i > Len(text) THEN <<>>
    ELSE IF /\ text[i] = "$"
            /\ i + 2 <= Len(text)
            /\ text[i + 1] = "$"
            /\ text[i + 2] # "$"
            /\ PositionsFrom(text, "$", i + 3) # {}
            /\ LET j == Min(PositionsFrom(text, "$", i + 3))
               IN  j + 1 <= Len(text) /\ text[j + 1] = "$"
         THEN LET j == Min(PositionsFrom(text, "$", i + 3))
              IN  <<[s |-> i + 2, e |-> j - 1]>> \o FindDisplayFrom(text, j + 2)
         ELSE FindDisplayFrom(text, i + 1)

\* re.findall of a \begin{..}, a lazy group and the matching \end{..}, with
\* re.DOTALL: the group ends before the first \end{..} after the \begin{..}.
RECURSIVE FindEnvFrom(_, _, _, _)
FindEnvFrom(text, begin, end, i) ==
    IF i > Len(text) THEN <<>>
    ELSE IF text[i] = begin /\ PositionsFrom(text, end, i + 1) # {}
         THEN LET j == Min(PositionsFrom(text, end, i + 1))
              IN  <<[s |-> i + 1, e |-> j - 1]>> \o FindEnvFrom(text, begin, end, j + 1)
         ELSE FindEnvFrom(text, begin, end, i + 1)

\* The keys of all_formulas, in the order the dict literal inserts them,
\* which is the order all_formulas.items() yields them.
formula_types == <<"inline", "display", "equation", "align">>

\* The capture spans of each category's findall.
FormulaSpans(text) ==
    [inline |-> FindInlineFrom(text, 1),
     display |-> FindDisplayFrom(text, 1),
     equation |-> FindEnvFrom(text, BEGIN_EQUATION, END_EQUATION, 1),
     align |-> FindEnvFrom(text, BEGIN_ALIGN, END_ALIGN, 1)]

\* all_formulas
AllFormulas(text) ==
    LET sp == FormulaSpans(text)
    IN  [inline |-> Captured(text, sp.inline),
         display |-> Captured(text, sp.display),
         equation |-> Captured(text, sp.equation),
         align |-> Captured(text, sp.align)]

\* '\\' in formula: the lexemes that hold a backslash.
HasBackslash(formula) ==
    \E i \in 1..Len(formula) : formula[i] \in CommandLexemes \cup {BACKSLASH}

\* any(c in formula for c in '_^&%')
HasSpecial(formula) ==
    \E i \in 1..Len(formula) : formula[i] \in {"_", "^", "&", "%"}

\* formula.count('(') != formula.count(')')
MismatchedParens(formula) == Count(formula, "(") # Count(formula, ")")

\* '\\' not in formula and any(c in formula for c in '_^&%')
MayBeUnescaped(formula) == ~HasBackslash(formula) /\ HasSpecial(formula)

\* The two f-strings, as the tuple of their pieces.
ParenError(formula_type, idx) ==
    <<formula_type, " formula #", idx + 1, " has mismatched parentheses">>

SpecialError(formula_type, idx) ==
    <<formula_type, " formula #", idx + 1, " may have unescaped special characters">>

\* A variant with the two checks in the other order.
FormulaErrorsSwapped(formula_type, idx, formula) ==
    (IF MayBeUnescaped(formula) THEN <<SpecialError(formula_type, idx)>> ELSE <<>>)
    \o (IF MismatchedParens(formula) THEN <<ParenError(formula_type, idx)>> ELSE <<>>)

\* The body of the inner loop: what one formula appends to common_errors.
FormulaErrors(formula_type, idx, formula) ==
    (IF MismatchedParens(formula) THEN <<ParenError(formula_type, idx)>> ELSE <<>>)
    \o (IF MayBeUnescaped(formula) THEN <<SpecialError(formula_type, idx)>> ELSE <<>>)

\* for idx, formula in enumerate(formulas): idx counts from 0.
RECURSIVE ScanFormulas(_, _, _)
ScanFormulas(formula_type, formulas, idx) ==
    IF idx >= Len(formulas) THEN <<>>
    ELSE FormulaErrors(formula_type, idx, formulas[idx + 1])
         \o ScanFormulas(formula_type, formulas, idx + 1)

\* for formula_type, formulas in all_formulas.items()
RECURSIVE ScanTypes(_, _)
ScanTypes(all_formulas, t) ==
    IF t > Len(formula_types) THEN <<>>
    ELSE ScanFormulas(formula_types[t], all_formulas[formula_types[t]], 0)
         \o ScanTypes(all_formulas, t + 1)

LabelSuggestion ==
    "Consider using \\label{} for important equations to reference them later"

\* The value check_formulas returns.
FormulasResult(text) ==
    LET all_formulas == AllFormulas(text)
    IN  [formulas |-> all_formulas,
         errors |-> ScanTypes(all_formulas, 1),
         suggestions |-> IF Len(all_formulas.align) > 0
                         THEN <<LabelSuggestion>> ELSE <<>>]

(***************************************************************************)
(* analyze_citations                                                       *)
(***************************************************************************)
\* c.split(','): the pieces between the commas, at least one.
RECURSIVE Split(_)
Split(c) ==
    IF PositionsFrom(c, ",", 1) = {} THEN <<c>>
    ELSE LET j == Min(PositionsFrom(c, ",", 1))
         IN  <<SubSeq(c, 1, j - 1)>> \o Split(SubSeq(c, j + 1, Len(c)))

\* The whitespace str.strip() removes.
Whitespace == {" ", "\n", "\t"}

\* item.strip()
Strip(item) ==
    LET keep == {i \in 1..Len(item) : item[i] \notin Whitespace}
    IN  IF keep = {} THEN <<>>
        ELSE SubSeq(item, Min(keep), CHOOSE m \in keep : \A k \in keep : k <= m)

\* [item.strip() for sublist in citations for item in sublist]
RECURSIVE Flatten(_, _)
Flatten(cites, i) ==
    IF i > Len(cites) THEN <<>>
    ELSE LET items == Split(cites[i])
         IN  [k \in 1..Len(items) |-> Strip(items[k])] \o Flatten(cites, i + 1)

\* The list `citations` after the three assignments.
Citations(text) == Flatten(Captured(text, FindBraced(text, CITE)), 1)

\* The list `bibliography`.
Bibliography(text) == Captured(text, FindBraced(text, BIBITEM))

\* [x for x in xs if x not in ys]
NotIn(xs, ys) == SelectSeq(xs, LAMBDA x : x \notin Range(ys))

\* The value analyze_citations returns.  list(set(citations)) has no
\* defined order: it is kept as the set.
CitationsResult(text) ==
    LET citations == Citations(text)
        bibliography == Bibliography(text)
    IN  [citation_count |-> Cardinality(Range(citations)),
         citations |-> Range(citations),
         bibliography_count |-> Len(bibliography),
         unused_references |-> NotIn(bibliography, citations),
         missing_references |-> NotIn(citations, bibliography)]

(***************************************************************************)
(* The inputs: the alphabets the texts are drawn from.                     *)
(***************************************************************************)
SectionLexemes == {SECTION, SUBSECTION, "}", "a", "\n"}

TermLexemes == {TEXTIT, TEXTBF, TERM, CITE, "}", "F", "f"}

FormulaLexemes ==
    {"$", "(", ")", "_", BACKSLASH,
     BEGIN_EQUATION, END_EQUATION, BEGIN_ALIGN, END_ALIGN}

CiteLexemes == {CITE, BIBITEM, "}", ",", " ", "x", "y"}

\* All documents made of at most n of the fragments in F, one after another.
RECURSIVE Documents(_, _)
Documents(F, n) ==
    IF n = 0 THEN {<<>>}
    ELSE LET shorter == Documents(F, n - 1)
         IN  shorter \cup {d \o f : d \in shorter, f \in F}

\* Fragments of documents, well-formed and malformed, for runs of several
\* calls.
SectionFragments == {<<SECTION, "a", "}">>, <<SUBSECTION, "a", "}", "b">>, <<"\n">>}

TermFragments ==
    {<<TERM, "F", "}">>, <<TERM, "f", "}">>, <<TEXTIT, "f", "}">>,
     <<CITE, "x", "}">>, <<TEXTBF, "F">>}

FormulaFragments == {<<"$", "(", "$">>, <<BEGIN_ALIGN, "_", END_ALIGN>>, <<"$">>}

CiteFragments == {<<CITE, "x", ",", "y", "}">>, <<BIBITEM, "y", "}">>, <<CITE, "x">>}

ConcFragments == {<<TERM, "F", "}">>, <<TERM, "f", "}">>, <<TEXTIT, "x", "}">>}

(***************************************************************************)
(* The state.  term_cache is the module's global.  A tool call is two      *)
(* steps: the host invokes the tool (phase "called": op, text and          *)
(* update_cache hold the call), and the tool runs and returns (phase       *)
(* "returned": result holds the returned value).  For calls that run       *)
(* concurrently, each thread p is at pc[p] in check_term_consistency, with *)
(* its arguments in arg[p], its local variables in locals[p] and its       *)
(* returned value in returned[p].                                          *)
(***************************************************************************)
VARIABLES term_cache, phase, op, text, update_cache, result, pc, arg, locals, returned

vars == <<term_cache, phase, op, text, update_cache, result, pc, arg, locals, returned>>

seq_vars == <<phase, op, text, update_cache, result>>

conc_vars == <<pc, arg, locals, returned>>

Procs == {"t1", "t2"}

NoResult == [none |-> TRUE]

Init ==
    /\ term_cache = EmptyDict
    /\ phase = "idle"
    /\ op = "none"
    /\ text = <<>>
    /\ update_cache = FALSE
    /\ result = NoResult
    /\ pc = [p \in Procs |-> "idle"]
    /\ arg = [p \in Procs |-> NoResult]
    /\ locals = [p \in Procs |-> NoResult]
    /\ returned = [p \in Procs |-> NoResult]

\* The host calls tool o on text t (with update_cache u).
Invoke(o, t, u) ==
    /\ phase' = "called"
    /\ op' = o
    /\ text' = t
    /\ update_cache' = u
    /\ result' = NoResult
    /\ UNCHANGED <<term_cache, conc_vars>>

ReadText ==
    /\ phase = "called" /\ op = "read_text"
    /\ result' = ReadTextResult(text)
    /\ phase' = "returned"
    /\ UNCHANGED <<term_cache, op, text, update_cache, conc_vars>>

CheckTermConsistency ==
    /\ phase = "called" /\ op = "check_term_consistency"
    /\ term_cache' = UpdatedCache(term_cache, TermLoop(text).found_terms, update_cache)
    /\ result' = TermResult(text)
    /\ phase' = "returned"
    /\ UNCHANGED <<op, text, update_cache, conc_vars>>

CheckFormulas ==
    /\ phase = "called" /\ op = "check_formulas"
    /\ result' = FormulasResult(text)
    /\ phase' = "returned"
    /\ UNCHANGED <<term_cache, op, text, update_cache, conc_vars>>

AnalyzeCitations ==
    /\ phase = "called" /\ op = "analyze_citations"
    /\ result' = CitationsResult(text)
    /\ phase' = "returned"
    /\ UNCHANGED <<term_cache, op, text, update_cache, conc_vars>>

Return == ReadText \/ CheckTermConsistency \/ CheckFormulas \/ AnalyzeCitations

(***************************************************************************)
(* Any sequence of calls, one at a time, on documents made of fragments.   *)
(***************************************************************************)
CallReadText ==
    phase # "called" /\ \E t \in Documents(SectionFragments, MaxFragments) :
        Invoke("read_text", t, FALSE)

CallCheckTermConsistency ==
    phase # "called" /\ \E t \in Documents(TermFragments, MaxFragments), u \in BOOLEAN :
        Invoke("check_term_consistency", t, u)

CallCheckFormulas ==
    phase # "called" /\ \E t \in Documents(FormulaFragments, MaxFragments) :
        Invoke("check_formulas", t, FALSE)

CallAnalyzeCitations ==
    phase # "called" /\ \E t \in Documents(CiteFragments, MaxFragments) :
        Invoke("analyze_citations", t, FALSE)

Next ==
    \/ CallReadText
    \/ CallCheckTermConsistency
    \/ CallCheckFormulas
    \/ CallAnalyzeCitations
    \/ Return

Spec == Init /\ [][Next]_vars

(***************************************************************************)
(* One call of one tool, on every text over the tool's alphabet.           *)
(***************************************************************************)
FirstReadText ==
    phase = "idle" /\ \E t \in Texts(SectionLexemes, MaxSectionLen) :
        Invoke("read_text", t, FALSE)

NextRead == FirstReadText \/ ReadText

SpecRead == Init /\ [][NextRead]_vars

FirstCheckTermConsistency ==
    phase = "idle" /\ \E t \in Texts(TermLexemes, MaxTermLen), u \in BOOLEAN :
        Invoke("check_term_consistency", t, u)

NextTerms == FirstCheckTermConsistency \/ CheckTermConsistency

SpecTerms == Init /\ [][NextTerms]_vars

FirstCheckFormulas ==
    phase = "idle" /\ \E t \in Texts(FormulaLexemes, MaxFormulaLen) :
        Invoke("check_formulas", t, FALSE)

NextFormulas == FirstCheckFormulas \/ CheckFormulas

SpecFormulas == Init /\ [][NextFormulas]_vars

FirstAnalyzeCitations ==
    phase = "idle" /\ \E t \in Texts(CiteLexemes, MaxCiteLen) :
        Invoke("analyze_citations", t, FALSE)

NextCitations == FirstAnalyzeCitations \/ AnalyzeCitations

SpecCitations == Init /\ [][NextCitations]_vars

(***************************************************************************)
(* One call of any of the four tools, on every short text over its         *)
(* alphabet.                                                               *)
(***************************************************************************)
FirstCall ==
    /\ phase = "idle"
    /\ \/ \E t \in Texts(SectionLexemes, MaxPlainLen) : Invoke("read_text", t, FALSE)
       \/ \E t \in Texts(TermLexemes, MaxPlainLen), u \in BOOLEAN :
              Invoke("check_term_consistency", t, u)
       \/ \E t \in Texts(FormulaLexemes, MaxPlainLen) : Invoke("check_formulas", t, FALSE)
       \/ \E t \in Texts(CiteLexemes, MaxPlainLen) : Invoke("analyze_citations", t, FALSE)

NextTotal == FirstCall \/ Return

SpecTotal == Init /\ [][NextTotal]_vars

(***************************************************************************)
(* Calls of check_term_consistency that run concurrently, one per thread.  *)
(* A thread switch can fall between any two statements that touch          *)
(* term_cache; the loops read and write only the call's own locals, so     *)
(* they are one step.                                                      *)
(***************************************************************************)
ConcInvoke(p) ==
    /\ pc[p] = "idle"
    /\ \E t \in Documents(ConcFragments, MaxConcFragments), u \in BOOLEAN :
           arg' = [arg EXCEPT ![p] = [text |-> t, update_cache |-> u]]
    /\ pc' = [pc EXCEPT ![p] = "loop"]
    /\ UNCHANGED <<term_cache, seq_vars, locals, returned>>

\* found_terms = {}, inconsistencies = [] and the two loops.
ConcLoop(p) ==
    /\ pc[p] = "loop"
    /\ locals' = [locals EXCEPT ![p] = TermLoop(arg[p].text)]
    /\ pc' = [pc EXCEPT ![p] = "test"]
    /\ UNCHANGED <<term_cache, seq_vars, arg, returned>>

\* if update_cache:
ConcTest(p) ==
    /\ pc[p] = "test"
    /\ pc' = [pc EXCEPT ![p] = IF arg[p].update_cache THEN "store" ELSE "return"]
    /\ UNCHANGED <<term_cache, seq_vars, arg, locals, returned>>

\* term_cache = found_terms
ConcStore(p) ==
    /\ pc[p] = "store"
    /\ term_cache' = UpdatedCache(term_cache, locals[p].found_terms, TRUE)
    /\ pc' = [pc EXCEPT ![p] = "return"]
    /\ UNCHANGED <<seq_vars, arg, locals, returned>>

\* return {...}
ConcReturn(p) ==
    /\ pc[p] = "return"
    /\ returned' = [returned EXCEPT ![p] =
           [terms |-> locals[p].found_terms,
            inconsistencies |-> locals[p].inconsistencies]]
    /\ pc' = [pc EXCEPT ![p] = "done"]
    /\ UNCHANGED <<term_cache, seq_vars, arg, locals>>

NextConc ==
    \E p \in Procs :
        \/ ConcInvoke(p)
        \/ ConcLoop(p)
        \/ ConcTest(p)
        \/ ConcStore(p)
        \/ ConcReturn(p)

SpecConc == Init /\ [][NextConc]_vars

(***************************************************************************)
(* The claims.                                                             *)
(***************************************************************************)
\* The step in which an updating call of check_term_consistency returns.
UpdatingReturn ==
    /\ phase = "called" /\ op = "check_term_consistency" /\ update_cache
    /\ phase' = "returned"

\* The spelling of the first term with key k in the order the call extracts
\* the terms of text: pattern by pattern.
FirstExtracted(t, k) ==
    LET ts == ExtractedTerms(t)
    IN  ts[Min({i \in 1..Len(ts) : Lower(ts[i]) = k})]

\* The capture spans of all the term occurrences of a text, of the four
\* families together.
Occurrences(t) ==
    UNION {Range(FindBraced(t, term_patterns[p])) : p \in 1..Len(term_patterns)}

TermAt(t, o) == SubSeq(t, o.s, o.e)

\* The spelling of the occurrence with key k that comes first in the
\* document.
FirstInDocument(t, k) ==
    LET os == {o \in Occurrences(t) : Lower(TermAt(t, o)) = k}
    IN  TermAt(t, CHOOSE o \in os : \A o2 \in os : o.s <= o2.s)

\* C1 as stated: for every key in term_cache the stored spelling is the
\* first one observed for that key over the whole history of updating
\* calls, so a step never replaces the spelling stored for a key that stays
\* in the table.
C1_FirstSpellingEverIsKept ==
    [][\A k \in DOMAIN term_cache \cap DOMAIN term_cache' :
           term_cache'[k] = term_cache[k]]_vars

\* C1 as amended: the keys of term_cache are the keys of the terms of the
\* most recent updating call's text, each with the spelling of the first
\* term with that key in the order that call extracted the terms; no other
\* step changes the table.
C1_CacheHoldsLastUpdateFirstSpellings ==
    [][IF UpdatingReturn
       THEN /\ DOMAIN term_cache' = {Lower(x) : x \in Range(ExtractedTerms(text))}
            /\ \A k \in DOMAIN term_cache' : term_cache'[k] = FirstExtracted(text, k)
       ELSE term_cache' = term_cache]_vars

\* An updating call has returned on a text that spells a key in two ways,
\* and the table holds the spelling extracted first, which is not the one
\* that comes first in the document.
C1_Witness ==
    /\ phase = "returned" /\ op = "check_term_consistency" /\ update_cache
    /\ \E k \in DOMAIN term_cache :
           /\ term_cache[k] = FirstExtracted(text, k)
           /\ term_cache[k] # FirstInDocument(text, k)

\* C2: term_cache starts empty; the return of a check_term_consistency call
\* with update_cache true makes it the 'terms' table the call returns, and
\* every other step (a return with update_cache false, a return of another
\* tool, a call) leaves it unchanged.
C2_CacheIsLastUpdatingResult ==
    /\ term_cache = EmptyDict
    /\ [][IF UpdatingReturn
          THEN term_cache' = result'.terms
          ELSE term_cache' = term_cache]_vars

\* A call with update_cache false has returned a table other than the one
\* in term_cache, which is still the non-empty table of an earlier updating
\* call.
C2_Witness ==
    /\ phase = "returned" /\ op = "check_term_consistency" /\ ~update_cache
    /\ term_cache # EmptyDict
    /\ result.terms # EmptyDict
    /\ result.terms # term_cache

\* The elements of a list are pairwise different.
NoDuplicates(xs) == \A i, j \in 1..Len(xs) : xs[i] = xs[j] => i = j

\* C3: missing_references lists exactly the distinct citation keys that are
\* no bibliography keys, unused_references exactly the distinct bibliography
\* keys that are never cited, each key once.
C3_MissingAndUnusedAreSetDifferences ==
    (phase = "returned" /\ op = "analyze_citations") =>
        LET cited == Range(Citations(text))
            declared == Range(Bibliography(text))
        IN  /\ Range(result.missing_references) = cited \ declared
            /\ NoDuplicates(result.missing_references)
            /\ Range(result.unused_references) = declared \ cited
            /\ NoDuplicates(result.unused_references)

\* C4: citation_count is the number of distinct citation keys and
\* bibliography_count the number of distinct bibliography keys.
C4_CountsAreOfDistinctKeys ==
    (phase = "returned" /\ op = "analyze_citations") =>
        /\ result.citation_count = Cardinality(Range(Citations(text)))
        /\ result.bibliography_count = Cardinality(Range(Bibliography(text)))

\* How many of the inconsistencies in incs have this original and variant.
Emitted(incs, original, variant) ==
    Cardinality({i \in 1..Len(incs) :
                    incs[i].original = original /\ incs[i].variant = variant})

\* How many term occurrences of t are spelled `variant`, differently from
\* `original`, the spelling of their key that comes first in the document.
Drifted(t, original, variant) ==
    Cardinality({o \in Occurrences(t) :
                    /\ TermAt(t, o) = variant
                    /\ variant # original
                    /\ FirstInDocument(t, Lower(variant)) = original})

\* C5: there is exactly one Inconsistency for each term occurrence whose
\* spelling differs from the first spelling of its key in the document,
\* with that first spelling as 'original' and the occurrence's spelling as
\* 'variant', and there is no other Inconsistency.
C5_InconsistenciesAgainstFirstInDocument ==
    (phase = "returned" /\ op = "check_term_consistency") =>
        LET spellings == {TermAt(text, o) : o \in Occurrences(text)}
                         \cup {x.original : x \in Range(result.inconsistencies)}
                         \cup {x.variant : x \in Range(result.inconsistencies)}
        IN  \A original, variant \in spellings :
                Emitted(result.inconsistencies, original, variant)
                    = Drifted(text, original, variant)

\* C6: no formula span of the text is captured in two of the four
\* categories.
C6_CategoriesAreDisjoint ==
    (phase = "returned" /\ op = "check_formulas") =>
        \A c, d \in Range(formula_types) :
            c # d => Range(FormulaSpans(text)[c]) \cap Range(FormulaSpans(text)[d]) = {}

\* The place of an error in the scan: category, index, kind.
ErrorKey(e) ==
    <<CHOOSE t \in 1..Len(formula_types) : formula_types[t] = e[1],
      e[3],
      IF e[4] = " has mismatched parentheses" THEN 1 ELSE 2>>

KeyBefore(a, b) ==
    \/ a[1] < b[1]
    \/ a[1] = b[1] /\ a[2] < b[2]
    \/ a[1] = b[1] /\ a[2] = b[2] /\ a[3] < b[3]

\* The errors the claim asks for of the formulas fs of category c.
ClaimedErrorsOf(c, fs) ==
    {<<c, " formula #", n, " has mismatched parentheses">> :
        n \in {m \in 1..Len(fs) :
                  Cardinality({k \in 1..Len(fs[m]) : fs[m][k] = "("})
                  # Cardinality({k \in 1..Len(fs[m]) : fs[m][k] = ")"})}}
    \cup
    {<<c, " formula #", n, " may have unescaped special characters">> :
        n \in {m \in 1..Len(fs) :
                  /\ \A k \in 1..Len(fs[m]) : fs[m][k] \notin CommandLexemes \cup {BACKSLASH}
                  /\ \E k \in 1..Len(fs[m]) : fs[m][k] \in {"_", "^", "&", "%"}}}

\* The errors the claim asks for, from the formulas the call returns.
ClaimedErrors(formulas) ==
    UNION {ClaimedErrorsOf(c, formulas[c]) : c \in Range(formula_types)}

SectionMarkers(t) ==
    {i \in 1..Len(t) :
        /\ t[i] = SECTION
        /\ \E j \in i + 1..Len(t) : t[j] = "}"
        /\ ~\E h \in 1..i - 1 :
               t[h] = SECTION /\ \A j \in h..i : t[j] # "}"}

\* The text from the end of the marker at i up to the next \section{, or
\* up to the very end of the text.
VerbatimContent(t, i) ==
    LET j == Min({x \in i + 1..Len(t) : t[x] = "}"})
        next == {x \in j + 1..Len(t) : t[x] = SECTION}
    IN  SubSeq(t, j + 1, IF next = {} THEN Len(t) ELSE Min(next) - 1)

\* The k-th smallest element of a set of numbers.
Kth(S, k) == CHOOSE x \in S : Cardinality({y \in S : y < x}) = k - 1

\* C8: read_text returns one Section per section marker, in document
\* order, and each content is the verbatim text from the end of its marker
\* up to the next \section{ or up to the very end of the text.
C8_SectionContentIsVerbatim ==
    (phase = "returned" /\ op = "read_text") =>
        /\ Len(result.sections) = Cardinality(SectionMarkers(text))
        /\ \A k \in 1..Len(result.sections) :
               result.sections[k].content
                   = VerbatimContent(text, Kth(SectionMarkers(text), k))

\* A text holds no marker of a tool when no opener of the tool's patterns
\* is followed by its closer.
NoSectionMarkup(t) ==
    ~\E i, j \in 1..Len(t) : i < j /\ t[i] = SECTION /\ t[j] = "}"

NoTermMarkup(t) ==
    ~\E i, j \in 1..Len(t) : i < j /\ t[i] \in Range(term_patterns) /\ t[j] = "}"

NoFormulaMarkup(t) ==
    /\ ~\E i, j \in 1..Len(t) : i + 1 < j /\ t[i] = "$" /\ t[i + 1] # "$" /\ t[j] = "$"
    /\ ~\E i, j \in 1..Len(t) : i < j /\ t[i] = BEGIN_EQUATION /\ t[j] = END_EQUATION
    /\ ~\E i, j \in 1..Len(t) : i < j /\ t[i] = BEGIN_ALIGN /\ t[j] = END_ALIGN

NoCitationMarkup(t) ==
    ~\E i, j \in 1..Len(t) : i < j /\ t[i] \in {CITE, BIBITEM} /\ t[j] = "}"

\* C9: every call returns; on a text without a marker of the tool it
\* returns the tool's empty result, with the text kept verbatim by
\* read_text.
C9_NoMarkupGivesEmptyResults ==
    /\ phase = "called" => ENABLED Return
    /\ (phase = "returned" /\ op = "read_text" /\ NoSectionMarkup(text)) =>
           result = [sections |-> <<>>, content |-> text]
    /\ (phase = "returned" /\ op = "check_term_consistency" /\ NoTermMarkup(text)) =>
           result = [terms |-> EmptyDict, inconsistencies |-> <<>>]
    /\ (phase = "returned" /\ op = "check_formulas" /\ NoFormulaMarkup(text)) =>
           result = [formulas |-> [inline |-> <<>>, display |-> <<>>,
                                   equation |-> <<>>, align |-> <<>>],
                     errors |-> <<>>, suggestions |-> <<>>]
    /\ (phase = "returned" /\ op = "analyze_citations" /\ NoCitationMarkup(text)) =>
           result = [citation_count |-> 0, citations |-> {}, bibliography_count |-> 0,
                     unused_references |-> <<>>, missing_references |-> <<>>]

\* A call has returned the empty result on a text with malformed markup: a
\* term opener that no "}" closes.
C9_Witness ==
    /\ phase = "returned" /\ op = "check_term_consistency" /\ NoTermMarkup(text)
    /\ \E i \in 1..Len(text) : text[i] \in Range(term_patterns) /\ i < Len(text)
    /\ result.terms = EmptyDict

\* C10: the cache updates of two concurrent calls exclude each other: no
\* two threads are at once past the test of update_cache and before the end
\* of their assignment to term_cache.
C10_CacheUpdatesExcludeEachOther ==
    \A p, q \in Procs : p # q => ~(pc[p] = "store" /\ pc[q] = "store")
\* What holds of concurrent updates all the same: each update is one
\* assignment of the call's whole local table, so once both of two updating
\* calls have returned, term_cache is the table one of them returned.
FinalCacheIsOneCallsTable ==
    (\A p \in Procs : pc[p] = "done" /\ arg[p].update_cache) =>
        \E p \in Procs : term_cache = returned[p].terms

=============================================================================
